---- MODULE Spec2Model ----
(***************************************************************************)
(* A model of the video-generation workflow of src/App.tsx:                *)
(*   - generateVideoFromText (submit, poll, inspect, fetch, encode, join), *)
(*   - parseErrorMessage (the error classifier),                           *)
(*   - the App component's state and its two generation handlers.          *)
(* Strings are TLA+ strings; includes, split, decodeURIComponent and       *)
(* base64 are computed character by character.                             *)
(***************************************************************************)
EXTENDS Integers, Sequences, FiniteSets, TLC

\* ------------------------------------------------------------------ bounds

\* Status re-fetches one invocation is followed through.
MaxPolls == 2
\* Generated-media references one job response may carry.
MaxVideos == 2
\* Message fragments concatenated into one raw error message.
MaxFrags == 2
\* Generations the gallery is followed through.
MaxGenerations == 2
\* The largest count found in localStorage when the gallery mounts.
MaxSavedCount == 1

\* ------------------------------------------------------------ text helpers

\* The one-character string at position i (1-based) of s.
CharAt(s, i) == SubSeq(s, i, i)

\* String.prototype.includes: p occurs in m as a contiguous substring.
Includes(m, p) ==
  \E i \in 1..(Len(m) - Len(p) + 1) : SubSeq(m, i, i + Len(p) - 1) = p

\* Positions of the separator character c in s.
SepPositions(s, c) == {i \in 1..Len(s) : CharAt(s, i) = c}

Min(S) == CHOOSE x \in S : \A y \in S : x <= y

\* The value JavaScript gives for a missing array element or property.
Undefined == "<undefined>"

\* s.split(c)[1]: the piece between the first and the second occurrence of
\* the one-character separator c (to the end when there is no second one);
\* undefined when c does not occur in s.
SplitSecond(s, c) ==
  LET P == SepPositions(s, c) IN
  IF P = {} THEN Undefined
  ELSE LET a == Min(P)
           Q == {i \in P : i > a}
           b == IF Q = {} THEN Len(s) + 1 ELSE Min(Q)
       IN SubSeq(s, a + 1, b - 1)

\* ------------------------------------------------------ error classifier

\* A thrown value: an Error instance carrying a message, or any other value
\* (a thrown string, a plain object with a message property, null).
ErrorOf(msg) == [kind |-> "Error", message |-> msg]

\* The pattern written as the headline spells it.
PatPermissionTitle == "Permission Denied"

\* The pattern written without its capital.
PatBillingLower == "billing account not found"

PatApiKey == "API key not valid"
PatPermission == "permission denied"
PatLocation == "User location is not supported"
PatBilling == "Billing account not found"

\* A test for anything that has a message property.
IsErrorDuck(error) == error.kind \in {"Error", "object"}

\* `error instanceof Error`
IsError(error) == error.kind = "Error"

FallbackPair ==
  <<"An unexpected error occurred.",
    "Please check the console for more details.">>

\* The table tested from its last row to its first.
parseErrorMessageLastRowFirst(error) ==
  IF IsError(error)
  THEN LET message == error.message IN
       IF Includes(message, PatBilling)
       THEN <<"Billing Issue.",
              "A valid billing account is required. Please select a Cloud Project with billing enabled.">>
       ELSE IF Includes(message, PatLocation)
       THEN <<"Location Not Supported.",
              "The model is not available in your current location.">>
       ELSE IF Includes(message, PatPermission)
       THEN <<"Permission Denied.",
              "This model may require a specific tier or project configuration. Please check your project settings.">>
       ELSE IF Includes(message, PatApiKey)
       THEN <<"Your API key is not valid.",
              "Please check your API key and try again.">>
       ELSE <<"Video generation failed:", message>>
  ELSE FallbackPair

\* A last row that shows the message without the blanks around it.
parseErrorMessageTrimmed(error) ==
  IF IsError(error)
  THEN LET message == error.message IN
       IF Includes(message, PatApiKey)
       THEN <<"Your API key is not valid.",
              "Please check your API key and try again.">>
       ELSE IF Includes(message, PatPermission)
       THEN <<"Permission Denied.",
              "This model may require a specific tier or project configuration. Please check your project settings.">>
       ELSE IF Includes(message, PatLocation)
       THEN <<"Location Not Supported.",
              "The model is not available in your current location.">>
       ELSE IF Includes(message, PatBilling)
       THEN <<"Billing Issue.",
              "A valid billing account is required. Please select a Cloud Project with billing enabled.">>
       ELSE <<"Video generation failed:",
              IF message # "" /\ SubSeq(message, Len(message), Len(message)) = " "
              THEN SubSeq(message, 1, Len(message) - 1) ELSE message>>
  ELSE FallbackPair

parseErrorMessage(error) ==
  IF IsError(error)
  THEN LET message == error.message IN
       IF Includes(message, PatApiKey)
       THEN <<"Your API key is not valid.",
              "Please check your API key and try again.">>
       ELSE IF Includes(message, PatPermission)
       THEN <<"Permission Denied.",
              "This model may require a specific tier or project configuration. Please check your project settings.">>
       ELSE IF Includes(message, PatLocation)
       THEN <<"Location Not Supported.",
              "The model is not available in your current location.">>
       ELSE IF Includes(message, PatBilling)
       THEN <<"Billing Issue.",
              "A valid billing account is required. Please select a Cloud Project with billing enabled.">>
       ELSE <<"Video generation failed:", message>>
  ELSE FallbackPair

\* ------------------------------------------------------- media encoding

\* Printable ASCII in code order, as runs <<first code, characters>>; the
\* codes 34, 92 and 96 (double quote, backslash, backquote) are left out.
AsciiRuns ==
  << <<32, " !">>,
     <<35, "#$%&'()*+,-./0123456789:;<=>?@ABCDEFGHIJKLMNOPQRSTUVWXYZ[">>,
     <<93, "]^_">>,
     <<97, "abcdefghijklmnopqrstuvwxyz{|}~">> >>

\* The character code of a one-character string.
CodeOf(c) ==
  LET r == CHOOSE k \in 1..Len(AsciiRuns) :
             \E i \in 1..Len(AsciiRuns[k][2]) : CharAt(AsciiRuns[k][2], i) = c
      i == CHOOSE j \in 1..Len(AsciiRuns[r][2]) : CharAt(AsciiRuns[r][2], j) = c
  IN AsciiRuns[r][1] + i - 1

HasChar(n) ==
  \E k \in 1..Len(AsciiRuns) :
    n >= AsciiRuns[k][1] /\ n < AsciiRuns[k][1] + Len(AsciiRuns[k][2])

\* The character with a given code.
CharOf(n) ==
  LET r == CHOOSE k \in 1..Len(AsciiRuns) :
             n >= AsciiRuns[k][1] /\ n < AsciiRuns[k][1] + Len(AsciiRuns[k][2])
  IN CharAt(AsciiRuns[r][2], n - AsciiRuns[r][1] + 1)

HexDigits == "0123456789ABCDEF"
HexDigitsLower == "0123456789abcdef"

IsHex(c) ==
  \E i \in 1..16 : CharAt(HexDigits, i) = c \/ CharAt(HexDigitsLower, i) = c

HexVal(c) ==
  (CHOOSE i \in 1..16 : CharAt(HexDigits, i) = c \/ CharAt(HexDigitsLower, i) = c) - 1

\* decodeURIComponent from position i on: [ok, text]. A % that is not
\* followed by two hex digits raises URIError (ok = FALSE). Only escapes of
\* printable ASCII occur in the URIs of the model.
RECURSIVE DecodeFrom(_, _)
DecodeFrom(s, i) ==
  IF i > Len(s) THEN [ok |-> TRUE, text |-> ""]
  ELSE IF CharAt(s, i) # "%"
  THEN LET r == DecodeFrom(s, i + 1) IN
       [ok |-> r.ok, text |-> CharAt(s, i) \o r.text]
  ELSE IF i + 2 > Len(s) \/ ~IsHex(CharAt(s, i + 1)) \/ ~IsHex(CharAt(s, i + 2))
  THEN [ok |-> FALSE, text |-> ""]
  ELSE LET n == 16 * HexVal(CharAt(s, i + 1)) + HexVal(CharAt(s, i + 2))
           r == DecodeFrom(s, i + 3)
       IN IF ~HasChar(n) THEN [ok |-> FALSE, text |-> ""]
          ELSE [ok |-> r.ok, text |-> CharOf(n) \o r.text]

decodeURIComponent(s) == DecodeFrom(s, 1)

Base64Alphabet ==
  "ABCDEFGHIJKLMNOPQRSTUVWXYZabcdefghijklmnopqrstuvwxyz0123456789+/"

Base64Char(n) == CharAt(Base64Alphabet, n + 1)

\* Base64 of the bytes of s from position i on, three bytes to four
\* characters, padded with "=".
RECURSIVE Base64From(_, _)
Base64From(s, i) ==
  IF i > Len(s) THEN ""
  ELSE LET n == Len(s) - i + 1
           b1 == CodeOf(CharAt(s, i))
           b2 == IF n >= 2 THEN CodeOf(CharAt(s, i + 1)) ELSE 0
           b3 == IF n >= 3 THEN CodeOf(CharAt(s, i + 2)) ELSE 0
           v == b1 * 65536 + b2 * 256 + b3
       IN Base64Char(v \div 262144)
          \o Base64Char((v \div 4096) % 64)
          \o (IF n >= 2 THEN Base64Char((v \div 64) % 64) ELSE "=")
          \o (IF n >= 3 THEN Base64Char(v % 64) ELSE "=")
          \o Base64From(s, i + 3)

Base64(s) == Base64From(s, 1)

\* FileReader.readAsDataURL: the blob as a data: URL.
readAsDataURL(blob) ==
  "data:"
  \o (IF blob.type = "" THEN "application/octet-stream" ELSE blob.type)
  \o ";base64," \o Base64(blob.data)

\* bloblToBase64's onload handler: the data URL without its prefix.
bloblToBase64(blob) == SplitSecond(readAsDataURL(blob), ",")

\* ---------------------------------------------------------------- state

VARIABLES
  pc,            \* per invocation: where generateVideoFromText stands
  request,       \* per invocation: the prompt and numberOfVideos passed
  operation,     \* per invocation: the local variable `operation`
  submitCalls,   \* per invocation: generateVideos calls issued
  pollCalls,     \* per invocation: getVideosOperation calls issued
  notDoneSeen,   \* per invocation: statuses observed with done = false
  fetchCalls,    \* per invocation: media fetches issued
  tasks,         \* per invocation: the per-media async functions
  settled,       \* per invocation: indices of the tasks, in settling order
  result,        \* per invocation: what the returned promise settled with
  raised,        \* per invocation: the error a service call raised, if any
  rawError,      \* the value handed to parseErrorMessage
  classified,    \* what parseErrorMessage returned for it
  videos,               \* App state: the gallery, newest first
  playingVideo,         \* App state: the video in the player, or none
  editingVideo,         \* App state: the video on the edit page, or none
  isSaving,             \* App state: a generation is in progress
  generationError,      \* App state: the two lines of the error modal, or none
  promptInput,          \* App state: the text of the prompt field
  generatedVideosCount, \* App state: the counter kept in localStorage
  savedCount,           \* the counter read from localStorage at mount
  handler,              \* per invocation: the handler awaiting it
  origin,               \* per invocation: the handler's originalVideo / promptText
  started               \* generations started so far

genVars ==
  <<pc, request, operation, submitCalls, pollCalls, notDoneSeen, fetchCalls,
    tasks, settled, result, raised>>
parseVars == <<rawError, classified>>
appVars ==
  <<videos, playingVideo, editingVideo, isSaving, generationError, promptInput,
    generatedVideosCount, savedCount, handler, origin, started>>
\* What no step of generateVideoFromText touches.
outerVars == <<parseVars, appVars>>
vars == <<genVars, parseVars, appVars>>

\* The invocations of generateVideoFromText that are followed.
Invocations == {1, 2}

\* process.env.API_KEY
API_KEY == "K"

NoError == [kind |-> "none", message |-> ""]
NoBlob == [type |-> "", data |-> ""]
NoRequest == [prompt |-> "", numberOfVideos |-> 0]
NoResult == [kind |-> "none", list |-> <<>>, error |-> NoError]
\* `operation` before the submit call has returned.
\* null, where a Video is expected.
NoVideo == [id |-> 0, title |-> "", description |-> "", videoUrl |-> ""]
NoOperation ==
  [name |-> 0, done |-> FALSE, hasResponse |-> FALSE, hasVideos |-> FALSE,
   generatedVideos |-> <<>>]

\* ---------------------------------------------------------- the backend

\* The prompt each followed invocation is called with: two different ones.
PromptOf(i) == IF i = 1 THEN "a" ELSE "b"

\* The percent-encoded URI under which job j's k-th video is reported.
UriOf(j, k) == "f%2F" \o PromptOf(j) \o ToString(k) \o "%3Falt"

\* What the download endpoint serves at a URL: the file named in the path
\* f/<name>?alt, when the key parameter is the right one.
MediaAt(url) ==
  IF Len(url) >= 14 /\ SubSeq(url, 1, 2) = "f/" /\ SubSeq(url, 5, 14) = "?alt&key=" \o API_KEY
  THEN [ok |-> TRUE, status |-> 200, statusText |-> "OK",
        body |-> [type |-> "video/mp4", data |-> SubSeq(url, 3, 4)]]
  ELSE [ok |-> FALSE, status |-> 404, statusText |-> "Not Found", body |-> NoBlob]

Forbidden ==
  [ok |-> FALSE, status |-> 403, statusText |-> "Forbidden", body |-> NoBlob]

\* The responses a media fetch can get.
FetchResponses(url) == {MediaAt(url), Forbidden}

\* The statuses the service can report for job j, asked for n videos: not
\* done; done without a response; done with a response that has no
\* generatedVideos; done with 0..n generated videos.
StatusesOf(j, n) ==
  {[name |-> j, done |-> FALSE, hasResponse |-> FALSE, hasVideos |-> FALSE,
    generatedVideos |-> <<>>],
   [name |-> j, done |-> TRUE, hasResponse |-> FALSE, hasVideos |-> FALSE,
    generatedVideos |-> <<>>],
   [name |-> j, done |-> TRUE, hasResponse |-> TRUE, hasVideos |-> FALSE,
    generatedVideos |-> <<>>]}
  \cup {[name |-> j, done |-> TRUE, hasResponse |-> TRUE, hasVideos |-> TRUE,
         generatedVideos |-> [k \in 1..m |-> UriOf(j, k)]] : m \in 0..n}

\* The errors the service raises from a submit or a status call.
ServiceErrors ==
  {ErrorOf("got status: 403. permission denied on the model"),
   ErrorOf("Failed to fetch")}

\* The error res.blob() rejects with when the body cannot be read.
BodyError == ErrorOf("network error")

\* ------------------------------------------------ generateVideoFromText

\* One module-level `operation` shared by every invocation.
OpSlotShared(i) == 1

\* `let operation` is a variable of the invocation itself.
OpSlot(i) == i

\* A loop that waits for the response instead of the done flag.
ShouldPollUntilResponse(op) == ~op.hasResponse

\* The job inspected as returned, with no loop at all.
ShouldPollNever(op) == FALSE

\* The loop condition `!operation.done`.
ShouldPoll(op) == ~op.done

\* The error of the handlers' own emptiness check, used in its place.
NoDataError == ErrorOf("Video generation returned no data.")

\* The error of both `throw new Error('No videos generated')`.
NoVideosError == ErrorOf("No videos generated")

FetchFailed(res) ==
  ErrorOf("Failed to fetch video: " \o ToString(res.status) \o " " \o res.statusText)

\* One element of videos.map(async ...) up to its first await: the URI is
\* decoded, the key appended and the fetch issued; a malformed URI rejects.
NewTask(uri) ==
  LET d == decodeURIComponent(uri) IN
  IF d.ok
  THEN [st |-> "fetching", url |-> d.text \o "&key=" \o API_KEY,
        body |-> NoBlob, value |-> "", error |-> NoError]
  ELSE [st |-> "rejected", url |-> "", body |-> NoBlob, value |-> "",
        error |-> ErrorOf("URI malformed")]

\* A join that collects the values as the tasks complete.
ResultListByCompletion(ts, order) == [k \in 1..Len(order) |-> ts[order[k]].value]

\* Promise.all's value: the tasks' values by index, whatever the order
\* (`order`) in which they settled.
ResultList(ts, order) == [k \in 1..Len(ts) |-> ts[k].value]

Failed(e) == [kind |-> "error", list |-> <<>>, error |-> e]
Resolved(l) == [kind |-> "list", list |-> l, error |-> NoError]

\* The code from the point where a status `op` has been assigned to
\* `operation`: the loop test, then the inspection of the response and the
\* start of every media fetch.
Resume(i, op) ==
  /\ notDoneSeen' = [notDoneSeen EXCEPT ![i] = IF op.done THEN @ ELSE @ + 1]
  /\ IF ShouldPoll(op)
     THEN /\ pc' = [pc EXCEPT ![i] = "sleep"]
          /\ UNCHANGED <<tasks, fetchCalls, result>>
     ELSE IF ~op.hasResponse \/ ~op.hasVideos \/ Len(op.generatedVideos) = 0
     THEN /\ pc' = [pc EXCEPT ![i] = "failed"]
          /\ result' = [result EXCEPT ![i] = Failed(NoVideosError)]
          /\ UNCHANGED <<tasks, fetchCalls>>
     ELSE LET ts == [k \in 1..Len(op.generatedVideos) |->
                       NewTask(op.generatedVideos[k])]
              bad == {k \in 1..Len(ts) : ts[k].st = "rejected"}
          IN /\ tasks' = [tasks EXCEPT ![i] = ts]
             /\ fetchCalls' = [fetchCalls EXCEPT ![i] = @ + Len(ts) - Cardinality(bad)]
             /\ IF bad = {}
                THEN /\ pc' = [pc EXCEPT ![i] = "joining"]
                     /\ UNCHANGED result
                ELSE /\ pc' = [pc EXCEPT ![i] = "failed"]
                     /\ result' = [result EXCEPT ![i] = Failed(ts[Min(bad)].error)]

\* A service error answered by submitting the job once more.
PropagateRetry(i, e) ==
  IF submitCalls[i] < 2
  THEN /\ pc' = [pc EXCEPT ![i] = "submit"]
       /\ submitCalls' = [submitCalls EXCEPT ![i] = @ + 1]
       /\ UNCHANGED <<result, pollCalls>>
  ELSE /\ pc' = [pc EXCEPT ![i] = "failed"]
       /\ result' = [result EXCEPT ![i] = Failed(e)]
       /\ UNCHANGED <<submitCalls, pollCalls>>

\* An awaited service call raises e: no try/catch surrounds it, so the
\* invocation's promise rejects with e and nothing more is called.
Propagate(i, e) ==
  /\ pc' = [pc EXCEPT ![i] = "failed"]
  /\ result' = [result EXCEPT ![i] = Failed(e)]
  /\ UNCHANGED <<submitCalls, pollCalls>>

\* The call itself: the submit request goes out.
StartGenerate(i, prompt, n) ==
  /\ request' = [request EXCEPT ![i] = [prompt |-> prompt, numberOfVideos |-> n]]
  /\ pc' = [pc EXCEPT ![i] = "submit"]
  /\ submitCalls' = [submitCalls EXCEPT ![i] = @ + 1]
  /\ operation' = [operation EXCEPT ![OpSlot(i)] = NoOperation]
  /\ pollCalls' = [pollCalls EXCEPT ![i] = 0]
  /\ notDoneSeen' = [notDoneSeen EXCEPT ![i] = 0]
  /\ fetchCalls' = [fetchCalls EXCEPT ![i] = 0]
  /\ tasks' = [tasks EXCEPT ![i] = <<>>]
  /\ settled' = [settled EXCEPT ![i] = <<>>]
  /\ result' = [result EXCEPT ![i] = NoResult]
  /\ raised' = [raised EXCEPT ![i] = NoError]

\* generateVideos returns the job's first status.
SubmitReturns(i) ==
  /\ pc[i] = "submit"
  /\ \E op \in StatusesOf(i, request[i].numberOfVideos) :
       /\ operation' = [operation EXCEPT ![OpSlot(i)] = op]
       /\ Resume(i, operation'[OpSlot(i)])
  /\ UNCHANGED <<request, submitCalls, pollCalls, settled, raised, outerVars>>

\* generateVideos raises.
SubmitThrows(i) ==
  /\ pc[i] = "submit"
  /\ \E e \in ServiceErrors :
       /\ raised' = [raised EXCEPT ![i] = e]
       /\ Propagate(i, e)
  /\ UNCHANGED <<request, operation, notDoneSeen, fetchCalls, tasks, settled,
                 outerVars>>

\* The 10 s timer fires and getVideosOperation({operation}) goes out.
TimerFires(i) ==
  /\ pc[i] = "sleep"
  /\ pollCalls[i] < MaxPolls
  /\ pc' = [pc EXCEPT ![i] = "poll"]
  /\ pollCalls' = [pollCalls EXCEPT ![i] = @ + 1]
  /\ UNCHANGED <<request, operation, submitCalls, notDoneSeen, fetchCalls,
                 tasks, settled, result, raised, outerVars>>

\* getVideosOperation returns the status of the job it was asked about.
PollReturns(i) ==
  /\ pc[i] = "poll"
  /\ LET j == operation[OpSlot(i)].name IN
     \E op \in StatusesOf(j, request[j].numberOfVideos) :
       /\ operation' = [operation EXCEPT ![OpSlot(i)] = op]
       /\ Resume(i, operation'[OpSlot(i)])
  /\ UNCHANGED <<request, submitCalls, pollCalls, settled, raised, outerVars>>

\* getVideosOperation raises.
PollThrows(i) ==
  /\ pc[i] = "poll"
  /\ \E e \in ServiceErrors :
       /\ raised' = [raised EXCEPT ![i] = e]
       /\ Propagate(i, e)
  /\ UNCHANGED <<request, operation, notDoneSeen, fetchCalls, tasks, settled,
                 outerVars>>

\* Task k of invocation i rejects: Promise.all rejects with the first
\* rejection, and the pending invocation fails with it.
TaskRejects(i, k, e) ==
  /\ tasks' = [tasks EXCEPT ![i][k] = [@ EXCEPT !.st = "rejected", !.error = e]]
  /\ settled' = [settled EXCEPT ![i] = Append(@, k)]
  /\ IF pc[i] = "joining"
     THEN /\ pc' = [pc EXCEPT ![i] = "failed"]
          /\ result' = [result EXCEPT ![i] = Failed(e)]
     ELSE UNCHANGED <<pc, result>>

\* Task k of invocation i fulfils with v: Promise.all fulfils once every
\* task has.
TaskFulfils(i, k, v) ==
  /\ tasks' = [tasks EXCEPT ![i][k] = [@ EXCEPT !.st = "fulfilled", !.value = v]]
  /\ settled' = [settled EXCEPT ![i] = Append(@, k)]
  /\ IF pc[i] = "joining" /\ \A m \in 1..Len(tasks[i]) : tasks'[i][m].st = "fulfilled"
     THEN /\ pc' = [pc EXCEPT ![i] = "resolved"]
          /\ result' = [result EXCEPT ![i] = Resolved(ResultList(tasks'[i], settled'[i]))]
     ELSE UNCHANGED <<pc, result>>

\* The response to task k's fetch arrives: not ok throws, ok goes on to
\* read the body.
FetchResponds(i, k) ==
  /\ k \in 1..Len(tasks[i])
  /\ tasks[i][k].st = "fetching"
  /\ \E res \in FetchResponses(tasks[i][k].url) :
       IF ~res.ok
       THEN TaskRejects(i, k, FetchFailed(res))
       ELSE /\ tasks' = [tasks EXCEPT ![i][k] = [@ EXCEPT !.st = "body", !.body = res.body]]
            /\ UNCHANGED <<pc, result, settled>>
  /\ UNCHANGED <<request, operation, submitCalls, pollCalls, notDoneSeen,
                 fetchCalls, raised, outerVars>>

\* res.blob() fulfils and bloblToBase64 starts the FileReader.
BlobReturns(i, k) ==
  /\ k \in 1..Len(tasks[i])
  /\ tasks[i][k].st = "body"
  /\ tasks' = [tasks EXCEPT ![i][k] = [@ EXCEPT !.st = "reading"]]
  /\ UNCHANGED <<pc, request, operation, submitCalls, pollCalls, notDoneSeen,
                 fetchCalls, settled, result, raised, outerVars>>

\* res.blob() rejects: the body could not be read.
BlobThrows(i, k) ==
  /\ k \in 1..Len(tasks[i])
  /\ tasks[i][k].st = "body"
  /\ TaskRejects(i, k, BodyError)
  /\ UNCHANGED <<request, operation, submitCalls, pollCalls, notDoneSeen,
                 fetchCalls, raised, outerVars>>

\* The FileReader's load event: the promise resolves with the payload.
ReaderLoads(i, k) ==
  /\ k \in 1..Len(tasks[i])
  /\ tasks[i][k].st = "reading"
  /\ TaskFulfils(i, k, bloblToBase64(tasks[i][k].body))
  /\ UNCHANGED <<request, operation, submitCalls, pollCalls, notDoneSeen,
                 fetchCalls, raised, outerVars>>

\* The FileReader's error event: no handler is set and the promise has no
\* reject, so the task never settles.
ReaderErrors(i, k) ==
  /\ k \in 1..Len(tasks[i])
  /\ tasks[i][k].st = "reading"
  /\ tasks' = [tasks EXCEPT ![i][k] = [@ EXCEPT !.st = "stuck"]]
  /\ UNCHANGED <<pc, request, operation, submitCalls, pollCalls, notDoneSeen,
                 fetchCalls, settled, result, raised, outerVars>>

\* A caller invokes generateVideoFromText(prompt, n).
Call(i) ==
  /\ pc[i] = "idle"
  /\ \E n \in 1..MaxVideos : StartGenerate(i, PromptOf(i), n)
  /\ UNCHANGED outerVars

InitGen ==
  /\ pc = [i \in Invocations |-> "idle"]
  /\ request = [i \in Invocations |-> NoRequest]
  /\ operation = [i \in Invocations |-> NoOperation]
  /\ submitCalls = [i \in Invocations |-> 0]
  /\ pollCalls = [i \in Invocations |-> 0]
  /\ notDoneSeen = [i \in Invocations |-> 0]
  /\ fetchCalls = [i \in Invocations |-> 0]
  /\ tasks = [i \in Invocations |-> <<>>]
  /\ settled = [i \in Invocations |-> <<>>]
  /\ result = [i \in Invocations |-> NoResult]
  /\ raised = [i \in Invocations |-> NoError]

\* The pre-seeded gallery.
MOCK_VIDEOS ==
  <<[id |-> 1, title |-> "Sunrise", description |-> "a sunrise over the sea",
     videoUrl |-> "https://m/1.mp4"],
    [id |-> 2, title |-> "Bear", description |-> "a bear in the rapids",
     videoUrl |-> "https://m/2.mp4"]>>

\* The App component as mounted, but for the counter.
InitAppState ==
  /\ videos = MOCK_VIDEOS
  /\ playingVideo = NoVideo
  /\ editingVideo = NoVideo
  /\ isSaving = FALSE
  /\ generationError = <<>>
  /\ promptInput = ""
  /\ handler = [i \in Invocations |-> "none"]
  /\ origin = [i \in Invocations |-> NoVideo]
  /\ started = 0

InitGenerate ==
  /\ InitGen
  /\ rawError = NoError
  /\ classified = <<>>
  /\ InitAppState
  /\ savedCount = 0
  /\ generatedVideosCount = 0

\* The default value of the parameter numberOfVideos.
DefaultNumberOfVideos == 1

\* A caller invokes generateVideoFromText(prompt), as both handlers do.
CallDefault(i) ==
  /\ pc[i] = "idle"
  /\ StartGenerate(i, PromptOf(i), DefaultNumberOfVideos)
  /\ UNCHANGED outerVars

\* The steps invocation i takes once it has been called.
Step(i) ==
  \/ SubmitReturns(i)
  \/ SubmitThrows(i)
  \/ TimerFires(i)
  \/ PollReturns(i)
  \/ PollThrows(i)
  \/ \E k \in 1..MaxVideos : FetchResponds(i, k)
  \/ \E k \in 1..MaxVideos : BlobReturns(i, k)
  \/ \E k \in 1..MaxVideos : BlobThrows(i, k)
  \/ \E k \in 1..MaxVideos : ReaderLoads(i, k)
  \/ \E k \in 1..MaxVideos : ReaderErrors(i, k)

NextGenerate ==
  \/ Call(1)
  \/ Step(1)

\* One invocation of generateVideoFromText(prompt, n), called directly.
SpecGenerate == InitGenerate /\ [][NextGenerate]_vars

NextConcurrent ==
  \/ \E i \in Invocations : CallDefault(i)
  \/ \E i \in Invocations : Step(i)

\* Two concurrent invocations of generateVideoFromText(prompt).
SpecConcurrent == InitGenerate /\ [][NextConcurrent]_vars

\* One invocation in which every timer fires and every request that is out
\* is answered: the event loop runs each continuation that is ready.
FairGenerate == SpecGenerate /\ WF_vars(Step(1))

\* ------------------------------------------- the classifier on its own

\* Pieces of raw error messages: the four patterns, texts that match none,
\* a differently cased pattern, and the two halves of a pattern.
Fragments ==
  {"API key not valid", "permission denied", "User location is not supported",
   "Billing account not found", "boom ", "Permission Denied. ",
   "permission ", "denied"}

\* The messages made of at most n fragments; the empty message is one.
RECURSIVE MessagesUpTo(_)
MessagesUpTo(n) ==
  IF n = 0 THEN {""}
  ELSE LET M == MessagesUpTo(n - 1) IN
       M \cup {f \o m : f \in Fragments, m \in M}

Messages == MessagesUpTo(MaxFrags)

\* The values a catch clause can receive: an Error with a message, a plain
\* object that has a message property but is no Error, a thrown string, and
\* null and undefined.
RawErrors ==
  {[kind |-> k, message |-> m] : k \in {"Error", "object", "string"}, m \in Messages}
  \cup {[kind |-> "null", message |-> ""], [kind |-> "undefined", message |-> ""]}

InitParse ==
  /\ InitGen
  /\ rawError \in RawErrors
  /\ classified = <<>>
  /\ InitAppState
  /\ savedCount = 0
  /\ generatedVideosCount = 0

\* parseErrorMessage is applied to the raw error.
Classify ==
  /\ classified = <<>>
  /\ classified' = parseErrorMessage(rawError)
  /\ UNCHANGED <<genVars, rawError, appVars>>

NextParse == Classify

\* parseErrorMessage applied to each raw error.
SpecParse == InitParse /\ [][NextParse]_vars

\* ------------------------------------------------------ the App component

Max(S) == CHOOSE x \in S : \A y \in S : x >= y

\* String.prototype.trim, for texts whose only white space is the blank.
Trim(s) ==
  LET P == {i \in 1..Len(s) : CharAt(s, i) # " "} IN
  IF P = {} THEN "" ELSE SubSeq(s, Min(P), Max(P))

\* promptText.substring(0, 30) and the dots that follow a longer text.
TitleText(promptText) ==
  SubSeq(promptText, 1, IF Len(promptText) < 30 THEN Len(promptText) ELSE 30)
  \o (IF Len(promptText) > 30 THEN "..." ELSE "")

\* What the user can have typed into the prompt field: blanks, or a text
\* of more than 30 characters (the field starts empty).
PromptTexts == {"  ", "a majestic grizzly bear in the rapids"}

\* What the edit page can hand back as the description, besides the one
\* the video had: blanks or a short text.
EditedTexts == {"  ", "a cat"}

\* A component without the early return: the gallery stays on screen.
RenderedAlways == TRUE

\* `if (isSaving) return <SavingProgressPage />`: while a generation is in
\* progress nothing else is rendered, and no other control can be used.
Rendered == ~isSaving

\* The grid, the header and the prompt form are rendered.
GridShown == Rendered /\ editingVideo = NoVideo

\* The invocation a handler's call to generateVideoFromText becomes.
FreeSlot == Min({i \in Invocations : pc[i] = "idle"})

\* self.crypto.randomUUID(): an id no video of the gallery has.
FreshId == Len(videos) + 1

\* The Video a handler builds from the first returned entry.
NewVideo(i) ==
  [id |-> FreshId,
   title |-> IF handler[i] = "save"
             THEN "Remix of \"" \o origin[i].title \o "\""
             ELSE "Generated: \"" \o TitleText(origin[i].description) \o "\"",
   description |-> origin[i].description,
   videoUrl |-> "data:video/mp4;base64," \o result[i].list[1]]

\* The invocation's variables are dropped when its handler is through.
Release(i) ==
  /\ pc' = [pc EXCEPT ![i] = "idle"]
  /\ request' = [request EXCEPT ![i] = NoRequest]
  /\ operation' = [operation EXCEPT ![OpSlot(i)] = NoOperation]
  /\ submitCalls' = [submitCalls EXCEPT ![i] = 0]
  /\ pollCalls' = [pollCalls EXCEPT ![i] = 0]
  /\ notDoneSeen' = [notDoneSeen EXCEPT ![i] = 0]
  /\ fetchCalls' = [fetchCalls EXCEPT ![i] = 0]
  /\ tasks' = [tasks EXCEPT ![i] = <<>>]
  /\ settled' = [settled EXCEPT ![i] = <<>>]
  /\ result' = [result EXCEPT ![i] = NoResult]
  /\ raised' = [raised EXCEPT ![i] = NoError]
  /\ handler' = [handler EXCEPT ![i] = "none"]
  /\ origin' = [origin EXCEPT ![i] = NoVideo]

handlePlayVideo ==
  /\ GridShown
  /\ \E n \in 1..Len(videos) :
       /\ playingVideo # videos[n]
       /\ playingVideo' = videos[n]
  /\ UNCHANGED <<genVars, parseVars, videos, editingVideo, isSaving,
                 generationError, promptInput, generatedVideosCount,
                 savedCount, handler, origin, started>>

handleClosePlayer ==
  /\ Rendered
  /\ playingVideo # NoVideo
  /\ playingVideo' = NoVideo
  /\ UNCHANGED <<genVars, parseVars, videos, editingVideo, isSaving,
                 generationError, promptInput, generatedVideosCount,
                 savedCount, handler, origin, started>>

handleStartEdit ==
  /\ Rendered
  /\ playingVideo # NoVideo
  /\ playingVideo' = NoVideo
  /\ editingVideo' = playingVideo
  /\ UNCHANGED <<genVars, parseVars, videos, isSaving, generationError,
                 promptInput, generatedVideosCount, savedCount, handler,
                 origin, started>>

handleCancelEdit ==
  /\ Rendered
  /\ editingVideo # NoVideo
  /\ editingVideo' = NoVideo
  /\ UNCHANGED <<genVars, parseVars, videos, playingVideo, isSaving,
                 generationError, promptInput, generatedVideosCount,
                 savedCount, handler, origin, started>>

\* The textarea's onChange.
ChangePrompt ==
  /\ GridShown
  /\ \E t \in PromptTexts :
       /\ t # promptInput
       /\ promptInput' = t
  /\ UNCHANGED <<genVars, parseVars, videos, playingVideo, editingVideo,
                 isSaving, generationError, generatedVideosCount, savedCount,
                 handler, origin, started>>

\* The error modal's onClose.
DismissError ==
  /\ Rendered
  /\ generationError # <<>>
  /\ generationError' = <<>>
  /\ UNCHANGED <<genVars, parseVars, videos, playingVideo, editingVideo,
                 isSaving, promptInput, generatedVideosCount, savedCount,
                 handler, origin, started>>

\* handleSaveEdit up to its await: the edit page hands back the edited
\* video, and its description, whatever it is, becomes the prompt.
handleSaveEdit ==
  /\ Rendered
  /\ editingVideo # NoVideo
  /\ started < MaxGenerations
  /\ \E d \in {editingVideo.description} \cup EditedTexts :
       LET originalVideo == [editingVideo EXCEPT !.description = d]
           i == FreeSlot
       IN /\ editingVideo' = NoVideo
          /\ isSaving' = TRUE
          /\ generationError' = <<>>
          /\ StartGenerate(i, originalVideo.description, DefaultNumberOfVideos)
          /\ handler' = [handler EXCEPT ![i] = "save"]
          /\ origin' = [origin EXCEPT ![i] = originalVideo]
  /\ started' = started + 1
  /\ UNCHANGED <<parseVars, videos, playingVideo, promptInput,
                 generatedVideosCount, savedCount>>

\* handleGenerateNewVideo up to its await; a blank prompt returns at once.
handleGenerateNewVideo ==
  /\ GridShown
  /\ started < MaxGenerations
  /\ IF Trim(promptInput) = ""
     THEN UNCHANGED vars
     ELSE LET i == FreeSlot IN
          /\ isSaving' = TRUE
          /\ generationError' = <<>>
          /\ StartGenerate(i, promptInput, DefaultNumberOfVideos)
          /\ handler' = [handler EXCEPT ![i] = "new"]
          /\ origin' = [origin EXCEPT ![i] = [NoVideo EXCEPT !.description = promptInput]]
          /\ started' = started + 1
          /\ UNCHANGED <<parseVars, videos, playingVideo, editingVideo,
                         promptInput, generatedVideosCount, savedCount>>

\* A remix that is shown but not counted.
HandlerResumesRemixUncounted(i) ==
  /\ handler[i] # "none"
  /\ pc[i] = "resolved"
  /\ IF Len(result[i].list) = 0
     THEN /\ generationError' =
               parseErrorMessage(ErrorOf("Video generation returned no data."))
          /\ UNCHANGED <<videos, playingVideo, generatedVideosCount, promptInput>>
     ELSE /\ videos' = <<NewVideo(i)>> \o videos
          /\ playingVideo' = NewVideo(i)
          /\ generatedVideosCount' =
               IF handler[i] = "new" THEN generatedVideosCount + 1
               ELSE generatedVideosCount
          /\ promptInput' = IF handler[i] = "new" THEN "" ELSE promptInput
          /\ UNCHANGED generationError
  /\ isSaving' = FALSE
  /\ Release(i)
  /\ UNCHANGED <<parseVars, editingVideo, savedCount, started>>

\* The handler's await returns the list: the new video is prepended and
\* played, the counter goes up, and the finally clause ends the saving.
HandlerResumes(i) ==
  /\ handler[i] # "none"
  /\ pc[i] = "resolved"
  /\ IF Len(result[i].list) = 0
     THEN /\ generationError' =
               parseErrorMessage(ErrorOf("Video generation returned no data."))
          /\ UNCHANGED <<videos, playingVideo, generatedVideosCount, promptInput>>
     ELSE /\ videos' = <<NewVideo(i)>> \o videos
          /\ playingVideo' = NewVideo(i)
          /\ generatedVideosCount' = generatedVideosCount + 1
          /\ promptInput' = IF handler[i] = "new" THEN "" ELSE promptInput
          /\ UNCHANGED generationError
  /\ isSaving' = FALSE
  /\ Release(i)
  /\ UNCHANGED <<parseVars, editingVideo, savedCount, started>>

\* A catch clause with no finally after it: the saving never ends.
HandlerCatchesNoFinally(i) ==
  /\ handler[i] # "none"
  /\ pc[i] = "failed"
  /\ generationError' = parseErrorMessage(result[i].error)
  /\ Release(i)
  /\ UNCHANGED <<parseVars, videos, playingVideo, editingVideo, promptInput,
                 generatedVideosCount, savedCount, started, isSaving>>

\* A finally clause that also empties the prompt field.
HandlerCatchesClearsPrompt(i) ==
  /\ handler[i] # "none"
  /\ pc[i] = "failed"
  /\ generationError' = parseErrorMessage(result[i].error)
  /\ isSaving' = FALSE
  /\ promptInput' = ""
  /\ Release(i)
  /\ UNCHANGED <<parseVars, videos, playingVideo, editingVideo,
                 generatedVideosCount, savedCount, started>>

\* The handler's await throws: the error is classified for the modal, and
\* the finally clause ends the saving.
HandlerCatches(i) ==
  /\ handler[i] # "none"
  /\ pc[i] = "failed"
  /\ generationError' = parseErrorMessage(result[i].error)
  /\ isSaving' = FALSE
  /\ Release(i)
  /\ UNCHANGED <<parseVars, videos, playingVideo, editingVideo, promptInput,
                 generatedVideosCount, savedCount, started>>

\* The App component as mounted: the counter is the one saved before.
Init ==
  /\ InitGen
  /\ rawError = NoError
  /\ classified = <<>>
  /\ InitAppState
  /\ savedCount \in 0..MaxSavedCount
  /\ generatedVideosCount = savedCount

Next ==
  \/ handlePlayVideo
  \/ handleClosePlayer
  \/ handleStartEdit
  \/ handleCancelEdit
  \/ ChangePrompt
  \/ DismissError
  \/ handleSaveEdit
  \/ handleGenerateNewVideo
  \/ \E i \in Invocations : Step(i)
  \/ \E i \in Invocations : HandlerResumes(i)
  \/ \E i \in Invocations : HandlerCatches(i)

\* The gallery: the user's events, the generations they start and the
\* handlers' continuations.
Spec == Init /\ [][Next]_vars

\* ------------------------------------------------- the classifier (C8)

\* C8 as stated: for any raw error containing the substring
\* "permission denied", parseErrorMessage returns the Permission Denied pair.
C8_PermissionDeniedAlways ==
  classified # <<>> /\ Includes(rawError.message, "permission denied") =>
    classified =
      <<"Permission Denied.",
        "This model may require a specific tier or project configuration. Please check your project settings.">>

\* C8, amended: for any Error instance whose message contains
\* "permission denied" (case-sensitive) and does not contain
\* "API key not valid", parseErrorMessage returns the Permission Denied pair.
C8_PermissionDeniedPair ==
  /\ classified # <<>>
  /\ rawError.kind = "Error"
  /\ Includes(rawError.message, "permission denied")
  /\ ~Includes(rawError.message, "API key not valid")
  => classified =
       <<"Permission Denied.",
         "This model may require a specific tier or project configuration. Please check your project settings.">>

\* Reached: an Error whose message has the pattern after other text, and
\* in front of a later pattern, has been classified.
C8_Witness ==
  /\ rawError = [kind |-> "Error", message |-> "permission deniedBilling account not found"]
  /\ classified # <<>>
  /\ classified[1] = "Permission Denied."

\* ------------------------------------------------- the classifier (C9)

\* C9 as stated: an Error whose message contains
\* "Billing account not found" and none of the three earlier patterns gets
\* the headline "Billing Issue." and the detail "A valid billing account is
\* required. Please select a project with billing enabled."
C9_BillingPairAsStated ==
  /\ classified # <<>>
  /\ rawError.kind = "Error"
  /\ Includes(rawError.message, "Billing account not found")
  /\ ~Includes(rawError.message, "API key not valid")
  /\ ~Includes(rawError.message, "permission denied")
  /\ ~Includes(rawError.message, "User location is not supported")
  => classified =
       <<"Billing Issue.",
         "A valid billing account is required. Please select a project with billing enabled.">>

\* C9, amended: such an Error gets the headline "Billing Issue." and the
\* detail "A valid billing account is required. Please select a Cloud
\* Project with billing enabled."
C9_BillingPair ==
  /\ classified # <<>>
  /\ rawError.kind = "Error"
  /\ Includes(rawError.message, "Billing account not found")
  /\ ~Includes(rawError.message, "API key not valid")
  /\ ~Includes(rawError.message, "permission denied")
  /\ ~Includes(rawError.message, "User location is not supported")
  => classified =
       <<"Billing Issue.",
         "A valid billing account is required. Please select a Cloud Project with billing enabled.">>

\* Reached: an Error with the billing pattern and none of the earlier ones
\* (only a differently cased one) has been classified.
C9_Witness ==
  /\ rawError = [kind |-> "Error", message |-> "Permission Denied. Billing account not found"]
  /\ classified # <<>>
  /\ classified[1] = "Billing Issue."

\* ------------------------------------------------ the classifier (C10)

\* C10 as stated: parseErrorMessage returns the fallback pair for every
\* input that has no message or is not an error carrying a message.
C10_FallbackForNoMessage ==
  classified # <<>> /\ (rawError.kind # "Error" \/ rawError.message = "") =>
    classified =
      <<"An unexpected error occurred.",
        "Please check the console for more details.">>

\* C10, amended: parseErrorMessage is total (every raw error can be
\* classified, and the result is a pair), and for every input that is not
\* an Error instance, whether or not it has a message, it returns the
\* fallback pair; an Error instance whose message is empty gets
\* "Video generation failed:" and the empty message.
C10_TotalAndFallback ==
  /\ classified = <<>> => ENABLED Classify
  /\ classified # <<>> =>
       /\ Len(classified) = 2
       /\ rawError.kind # "Error" =>
            classified =
              <<"An unexpected error occurred.",
                "Please check the console for more details.">>
       /\ rawError.kind = "Error" /\ rawError.message = "" =>
            classified = <<"Video generation failed:", "">>

\* Reached: a plain object whose message has a pattern, but which is no
\* Error, has been given the fallback pair.
C10_Witness ==
  /\ rawError = [kind |-> "object", message |-> "permission denied"]
  /\ classified = <<"An unexpected error occurred.",
                    "Please check the console for more details.">>

\* ------------------------------------------------ the classifier (C11)

\* The pattern table as the rules list it: pattern, headline, detail.
C11_Rows ==
  << <<"API key not valid",
       <<"Your API key is not valid.",
         "Please check your API key and try again.">> >>,
     <<"permission denied",
       <<"Permission Denied.",
         "This model may require a specific tier or project configuration. Please check your project settings.">> >>,
     <<"User location is not supported",
       <<"Location Not Supported.",
         "The model is not available in your current location.">> >>,
     <<"Billing account not found",
       <<"Billing Issue.",
         "A valid billing account is required. Please select a Cloud Project with billing enabled.">> >> >>

\* The rows whose pattern the message contains.
C11_Matching(message) ==
  {k \in 1..Len(C11_Rows) : Includes(message, C11_Rows[k][1])}

\* C11: the pattern table is applied in order and the first match wins: for
\* an Error whose message contains one or several of the four patterns, the
\* result is the pair of the earliest matching row in the order
\* "API key not valid", "permission denied",
\* "User location is not supported", "Billing account not found".
C11_FirstMatchWins ==
  /\ classified # <<>>
  /\ rawError.kind = "Error"
  /\ C11_Matching(rawError.message) # {}
  => classified = C11_Rows[Min(C11_Matching(rawError.message))][2]

\* Reached: an Error whose message has the last pattern in front of the
\* third one has been given the pair of the third row.
C11_Witness ==
  /\ rawError = [kind |-> "Error",
                 message |-> "Billing account not foundUser location is not supported"]
  /\ classified # <<>>
  /\ classified[1] = "Location Not Supported."

\* ------------------------------------------------ the classifier (C12)

\* C12: for any Error whose message contains none of the four patterns
\* (e.g. "boom"), parseErrorMessage returns exactly
\* <<"Video generation failed:", the raw message verbatim>>.
C12_UnmatchedMessageVerbatim ==
  /\ classified # <<>>
  /\ rawError.kind = "Error"
  /\ ~Includes(rawError.message, "API key not valid")
  /\ ~Includes(rawError.message, "permission denied")
  /\ ~Includes(rawError.message, "User location is not supported")
  /\ ~Includes(rawError.message, "Billing account not found")
  => classified = <<"Video generation failed:", rawError.message>>

\* Reached: an Error whose message has a differently cased pattern and
\* ends in a blank has been given its message back as it is.
C12_Witness ==
  /\ rawError = [kind |-> "Error", message |-> "Permission Denied. boom "]
  /\ classified = <<"Video generation failed:", "Permission Denied. boom ">>

\* ------------------------------------------------- the polling loop (C1)

\* The calls invocation i has made are those of a run that polls exactly
\* once after each status with done = false and never after a done one.
PollsMatchNotDone(i) ==
  /\ notDoneSeen[i] = pollCalls[i] + (IF pc[i] = "sleep" THEN 1 ELSE 0)
  /\ operation[i].done => pc[i] \notin {"sleep", "poll"}
  /\ operation[i].done /\ notDoneSeen[i] = 0 => pollCalls[i] = 0

\* C1: within one invocation the status re-fetch is called once for every
\* status observed with done = false (the count of re-fetches equals the
\* count of not-done statuses, less the one whose timer is still pending),
\* and once a status with done = true has been observed the invocation is
\* never again waiting to poll or polling; a job that is done at submission
\* is polled zero times.
C1_PollOnlyWhileNotDone == \A i \in Invocations : PollsMatchNotDone(i)

\* Reached: two not-done statuses were each followed by a re-fetch, the
\* second re-fetch reported done, and polling stopped.
C1_Witness ==
  /\ operation[1].done
  /\ notDoneSeen[1] = 2
  /\ pollCalls[1] = 2
  /\ pc[1] \in {"joining", "failed"}

\* ------------------------------------------------ the returned list (C2)

\* The text-safe encoding of the media behind a reference, as the service
\* holds it: the base64 of the file's bytes.
EncodingOf(uri) ==
  CASE uri = "f%2Fa1%3Falt" -> "YTE="
    [] uri = "f%2Fa2%3Falt" -> "YTI="
    [] uri = "f%2Fa3%3Falt" -> "YTM="
    [] uri = "f%2Fa4%3Falt" -> "YTQ="
    [] uri = "f%2Fb1%3Falt" -> "YjE="
    [] uri = "f%2Fb2%3Falt" -> "YjI="
    [] uri = "f%2Fb3%3Falt" -> "YjM="
    [] OTHER -> "?"

\* C2: when an invocation has resolved, its list has one entry for each
\* generated-media reference of the done job's response, at least one, and
\* entry k is the encoding of reference k, in whatever order the fetches
\* completed.
C2_ListMatchesReferences ==
  \A i \in Invocations :
    pc[i] = "resolved" =>
      LET refs == operation[i].generatedVideos IN
      /\ result[i].kind = "list"
      /\ Len(refs) >= 1
      /\ Len(result[i].list) = Len(refs)
      /\ \A k \in 1..Len(refs) : result[i].list[k] = EncodingOf(refs[k])

\* Reached: two references, the second fetched and encoded before the
\* first, and the list still in the order of the references.
C2_Witness ==
  /\ pc[1] = "resolved"
  /\ settled[1] = <<2, 1>>
  /\ result[1].list = <<"YTE=", "YTI=">>

\* ------------------------------------------------- the empty result (C3)

EmptyResponse(op) ==
  op.done /\ (~op.hasResponse \/ ~op.hasVideos \/ Len(op.generatedVideos) = 0)

\* C3: once the job has been observed done with no response, or with a
\* response that has no generated-media entry, the invocation has failed
\* with the error "No videos generated", has issued no media fetch and holds
\* no list, and parseErrorMessage gives that error the pair
\* "Video generation failed:", "No videos generated".
C3_EmptyResultFails ==
  \A i \in Invocations :
    EmptyResponse(operation[i]) =>
      /\ pc[i] = "failed"
      /\ result[i].kind = "error"
      /\ result[i].list = <<>>
      /\ result[i].error = [kind |-> "Error", message |-> "No videos generated"]
      /\ fetchCalls[i] = 0
      /\ tasks[i] = <<>>
      /\ parseErrorMessage(result[i].error)
           = <<"Video generation failed:", "No videos generated">>

\* Reached: a re-fetch reported the job done with an empty list of videos.
C3_Witness ==
  /\ pollCalls[1] >= 1
  /\ operation[1].done /\ operation[1].hasResponse /\ operation[1].hasVideos
  /\ operation[1].generatedVideos = <<>>
  /\ pc[1] = "failed"

\* --------------------------------------------- all-or-nothing fetch (C4)

\* No task of invocation i can take a further step.
AllTasksAtRest(i) ==
  /\ tasks[i] # <<>>
  /\ \A k \in 1..Len(tasks[i]) : tasks[i][k].st \in {"fulfilled", "rejected", "stuck"}

\* Some fetch of invocation i got a non-success status, or some body could
\* not be read or encoded.
SomeTaskFailed(i) ==
  \E k \in 1..Len(tasks[i]) : tasks[i][k].st \in {"rejected", "stuck"}

\* C4: when one of the per-media fetches returned a non-success status or
\* failed to decode, the whole invocation has failed, and it has returned no
\* list, however many other fetches succeeded and in whatever order.
C4_AnyFailureFailsCall ==
  \A i \in Invocations :
    AllTasksAtRest(i) /\ SomeTaskFailed(i) =>
      pc[i] = "failed" /\ result[i].kind = "error"

\* ------------------------------------------- concurrent invocations (C5)

\* What invocation i reads and returns.
LocalState(i) ==
  <<pc[i], request[i], operation[i], submitCalls[i], pollCalls[i],
    notDoneSeen[i], fetchCalls[i], tasks[i], settled[i], result[i], raised[i]>>

\* The outcome is one the invocation has when it runs alone with its own
\* prompt: the encoded media of its own job, or one of the errors its own
\* calls can end in.
OwnOutcome(i) ==
  /\ pc[i] = "resolved" =>
       result[i] = [kind |-> "list", error |-> NoError,
                    list |-> IF i = 1 THEN <<"YTE=">> ELSE <<"YjE=">>]
  /\ pc[i] = "failed" =>
       /\ result[i].kind = "error"
       /\ result[i].error.message \in
            {"got status: 403. permission denied on the model",
             "Failed to fetch", "No videos generated", "network error",
             "Failed to fetch video: 403 Forbidden"}
  /\ pc[i] # "idle" => operation[i].name \in {0, i}

\* C5: two concurrent invocations with different prompts do not interfere:
\* no step changes what both of them read and return (each step belongs to
\* one invocation and leaves the other's state, result and error as they
\* were), and each outcome is one of the invocation's own: the media of its
\* own prompt, or an error of its own calls.
C5_NoInterference ==
  /\ [](\A i \in Invocations : OwnOutcome(i))
  /\ [][\A i, j \in Invocations :
          i # j => LocalState(i)' = LocalState(i) \/ LocalState(j)' = LocalState(j)]_vars

\* Reached: both invocations ran to their ends, one resolved with the media
\* of its prompt and the other failed on its own fetch.
C5_Witness ==
  /\ pc[1] = "resolved" /\ result[1].list = <<"YTE=">>
  /\ pc[2] = "failed"
  /\ result[2].error.message = "Failed to fetch video: 403 Forbidden"

\* ----------------------------------------------- the unbounded loop (C6)

InPolling(i) == pc[i] \in {"submit", "sleep", "poll"}

\* C6: the loop has no bound: an invocation leaves the polling phase only
\* on a status with done = true or on an error raised by the submit or a
\* status call, it ends only after one of the two, and once the service has
\* reported done or raised, the invocation eventually is resolved or failed.
C6_EndsOnlyAndAlwaysAfterDone ==
  /\ [][\A i \in Invocations :
          InPolling(i) /\ ~InPolling(i)' =>
            operation'[i].done \/ raised'[i] # NoError]_vars
  /\ [](\A i \in Invocations :
          pc[i] \in {"resolved", "failed"} =>
            operation[i].done \/ raised[i] # NoError)
  /\ \A i \in Invocations :
       [](operation[i].done \/ raised[i] # NoError
            => <>(pc[i] \in {"resolved", "failed"}))

\* ------------------------------------------------------- no retry (C7)

\* C7: no retry: once the submit call or a status re-fetch has raised an
\* error, the invocation has failed with exactly that error after a single
\* submit and without any media fetch, and from then on it issues no submit,
\* no status re-fetch and no media fetch, and its outcome stays.
C7_NoRetry ==
  /\ [](\A i \in Invocations :
          raised[i] # NoError =>
            /\ pc[i] = "failed"
            /\ result[i] = [kind |-> "error", list |-> <<>>, error |-> raised[i]]
            /\ submitCalls[i] = 1
            /\ fetchCalls[i] = 0)
  /\ [][\A i \in Invocations :
          raised[i] # NoError =>
            /\ submitCalls'[i] = submitCalls[i]
            /\ pollCalls'[i] = pollCalls[i]
            /\ fetchCalls'[i] = fetchCalls[i]
            /\ result'[i] = result[i]
            /\ pc'[i] = pc[i]]_vars

\* Reached: the second status re-fetch raised and the invocation failed
\* with that error.
C7_Witness ==
  /\ pollCalls[1] = 2
  /\ raised[1] = [kind |-> "Error", message |-> "Failed to fetch"]
  /\ pc[1] = "failed"
  /\ result[1].error = raised[1]

\* ------------------------------------------------ the prompt check (C13)

\* A text that is empty or made of blanks only.
C13_Blank(text) == \A k \in 1..Len(text) : CharAt(text, k) = " "

\* C13: every invocation of generateVideoFromText made by the handlers
\* handleGenerateNewVideo and handleSaveEdit passes a non-empty, non-blank
\* prompt; with a blank prompt no job is submitted.
C13_PromptNeverBlank ==
  \A i \in Invocations :
    submitCalls[i] > 0 => ~C13_Blank(request[i].prompt)

\* ------------------------------------------------- the job's states (C14)

\* The phase of the job invocation i is in: submitted, polling (the last
\* status had done = false), done (its media are being fetched), resolved
\* or failed.
C14_Phase(i) ==
  CASE pc[i] = "idle" -> "none"
    [] pc[i] = "submit" -> "submitted"
    [] pc[i] \in {"sleep", "poll"} -> "polling"
    [] pc[i] = "joining" -> "done"
    [] pc[i] = "resolved" -> "resolved"
    [] pc[i] = "failed" -> "failed"

\* The phases that can follow one another.
C14_Order ==
  {<<"none", "none">>, <<"none", "submitted">>,
   <<"submitted", "submitted">>, <<"submitted", "polling">>, <<"submitted", "done">>,
   <<"submitted", "failed">>,
   <<"polling", "polling">>, <<"polling", "done">>, <<"polling", "failed">>,
   <<"done", "done">>, <<"done", "resolved">>, <<"done", "failed">>,
   <<"resolved", "resolved">>, <<"failed", "failed">>}

\* C14: within one invocation the job passes through the states
\* submitted, polling (done = false) any number of times, done, and then
\* resolved or failed, in that order: the submit call has gone out and has
\* returned before any status re-fetch, a media fetch is issued only once a
\* status with done = true has been observed, a failure that no service call
\* raised comes only after such a status, and the invocation ends either
\* resolved, with a non-empty list, or failed, with an error and no list.
C14_JobStatesInOrder ==
  /\ [](\A i \in Invocations :
          /\ C14_Phase(i) = "polling" => ~operation[i].done
          /\ C14_Phase(i) \in {"done", "resolved"} => operation[i].done
          /\ C14_Phase(i) = "failed" /\ raised[i] = NoError => operation[i].done
          /\ pollCalls[i] > 0 => submitCalls[i] = 1
          /\ fetchCalls[i] > 0 => operation[i].done
          /\ C14_Phase(i) = "resolved" <=> result[i].kind = "list"
          /\ C14_Phase(i) = "failed" <=> result[i].kind = "error"
          /\ result[i].kind = "list" => Len(result[i].list) > 0
          /\ result[i].kind = "error" =>
               result[i].list = <<>> /\ result[i].error.kind = "Error")
  /\ [][\A i \in Invocations :
          /\ <<C14_Phase(i), C14_Phase(i)'>> \in C14_Order
          /\ pollCalls'[i] > pollCalls[i] =>
               /\ submitCalls[i] = 1
               /\ operation[i].name = i
               /\ ~operation[i].done
          /\ fetchCalls'[i] > fetchCalls[i] => operation'[i].done
          /\ submitCalls'[i] > submitCalls[i] =>
               pollCalls'[i] = 0 /\ fetchCalls'[i] = 0]_vars

\* Reached: an invocation that was submitted, saw two statuses with
\* done = false, then a done one with two videos, has resolved with a list
\* of two.
C14_Witness ==
  /\ pc[1] = "resolved"
  /\ submitCalls[1] = 1
  /\ notDoneSeen[1] = 2
  /\ fetchCalls[1] = 2
  /\ Len(result[1].list) = 2

\* ------------------------------------------- the end of a generation (C15)

\* Invocation i's handler runs to its end in this step.
C15_Finishes(i) == handler[i] # "none" /\ handler'[i] = "none"

\* A generation is started in this step.
C15_StartsGeneration == started' = started + 1

\* C15: when a generation started by handleSaveEdit or handleGenerateNewVideo
\* finishes, isSaving is false again, and generationError is
\* parseErrorMessage of the raised error if the generation failed and null if
\* it succeeded. An error is on display only while nothing is being saved,
\* it can be dismissed, dismissing it sets it to null and leaves the gallery
\* rendered, and with the gallery rendered, a non-blank prompt in the field
\* and no error on display a generation can be started again.
C15_FinishAndDismiss ==
  /\ [][\A i \in Invocations :
          C15_Finishes(i) =>
            /\ pc[i] \in {"resolved", "failed"}
            /\ isSaving /\ ~isSaving'
            /\ pc[i] = "failed" =>
                 /\ result[i].error.kind = "Error"
                 /\ generationError' = parseErrorMessage(result[i].error)
                 /\ generationError' # <<>>
            /\ pc[i] = "resolved" => generationError' = <<>>]_vars
  /\ [](generationError # <<>> => ~isSaving /\ ENABLED DismissError)
  /\ [][DismissError => generationError' = <<>> /\ ~isSaving']_vars
  /\ [](/\ ~isSaving
        /\ editingVideo = NoVideo
        /\ \E k \in 1..Len(promptInput) : CharAt(promptInput, k) # " "
        /\ started < MaxGenerations
        => ENABLED (handleGenerateNewVideo /\ C15_StartsGeneration))

\* Reached: a first generation failed, the user started a second one, its
\* media fetch was refused, and the modal shows that error while nothing is
\* being saved.
C15_Witness ==
  /\ started = 2
  /\ Len(videos) = 2
  /\ ~isSaving
  /\ generationError =
       <<"Video generation failed:", "Failed to fetch video: 403 Forbidden">>

\* ------------------------------------------- one generation at a time (C16)

\* The invocations of generateVideoFromText that have been called and whose
\* handler has not yet run to its end.
C16_InFlight == {i \in Invocations : pc[i] # "idle"}

\* C16: while isSaving is true the user interface offers no control that
\* starts a generation: neither handleSaveEdit nor a generation by
\* handleGenerateNewVideo can happen, and a generation starts only in a
\* state where isSaving is false; isSaving is true exactly while an
\* invocation is in flight, so at most one invocation of
\* generateVideoFromText is in flight at any time.
C16_OneGenerationAtATime ==
  /\ [](isSaving =>
          /\ ~ENABLED handleSaveEdit
          /\ ~ENABLED (handleGenerateNewVideo /\ started' = started + 1))
  /\ [][started' # started => ~isSaving /\ isSaving']_vars
  /\ [](isSaving <=> C16_InFlight # {})
  /\ [](Cardinality(C16_InFlight) <= 1)

\* Reached: the second generation, started from the prompt form after the
\* first one succeeded, is fetching its media while the saving page is shown
\* and the prompt field still holds the text.
C16_Witness ==
  /\ isSaving
  /\ started = 2
  /\ Len(videos) = 3
  /\ \E i \in Invocations : handler[i] = "new" /\ pc[i] = "joining"
  /\ promptInput = "a majestic grizzly bear in the rapids"

\* ------------------------------------------------ gallery and counter (C17)

\* Invocation i's handler ends in this step after its generation succeeded.
C17_Succeeds(i) ==
  handler[i] # "none" /\ handler'[i] = "none" /\ pc[i] = "resolved"

\* C17: in every reachable state the number of videos in the gallery less
\* the two pre-seeded ones equals generatedVideosCount less the value it was
\* mounted with; both grow by exactly one in a step in which a generation
\* succeeds and change in no other step, so both equal the number of
\* generations that succeeded. A success prepends one new video whose URL is
\* the data URL of the first returned entry, keeps the older videos as they
\* were, and makes the new video the playing one.
C17_GalleryMatchesCounter ==
  /\ [](Len(videos) - 2 = generatedVideosCount - savedCount)
  /\ [][\A i \in Invocations :
          C17_Succeeds(i) =>
            /\ Len(videos') = Len(videos) + 1
            /\ generatedVideosCount' = generatedVideosCount + 1
            /\ SubSeq(videos', 2, Len(videos')) = videos
            /\ videos'[1].videoUrl =
                 "data:video/mp4;base64," \o result[i].list[1]
            /\ \A n \in 1..Len(videos) : videos'[1].id # videos[n].id
            /\ playingVideo' = videos'[1]]_vars
  /\ [][(\A i \in Invocations : ~C17_Succeeds(i)) =>
          /\ videos' = videos
          /\ generatedVideosCount' = generatedVideosCount]_vars
  /\ [][savedCount' = savedCount]_vars

\* Reached: mounted with a saved count of 1, two generations have
\* succeeded: four videos, a count of 3, and the newest one, built from the
\* returned entry, is playing.
C17_Witness ==
  /\ savedCount = 1
  /\ Len(videos) = 4
  /\ generatedVideosCount = 3
  /\ playingVideo = videos[1]
  /\ videos[1].videoUrl = "data:video/mp4;base64,YTE="
  /\ ~isSaving

\* ------------------------------------------- what a failure leaves (C18)

\* Invocation i's handler ends in this step after its generation failed.
C18_Fails(i) ==
  handler[i] # "none" /\ handler'[i] = "none" /\ pc[i] = "failed"

\* Invocation i's handler ends in this step after its generation succeeded.
C18_Succeeds(i) ==
  handler[i] # "none" /\ handler'[i] = "none" /\ pc[i] = "resolved"

\* C18: a failed generation leaves the video list, generatedVideosCount,
\* playingVideo and promptInput at the values they had when the generation
\* started: the step that starts a generation keeps the four, every step
\* taken while it is in flight keeps them unless it is the end of a
\* successful generation, and the step that ends a failed one changes only
\* isSaving and generationError; while a generation started from the prompt
\* form is in flight the field still holds the prompt it was started with.
\* The program empties promptInput only at the end of a successful
\* handleGenerateNewVideo: the field changes in no other step but the
\* user's typing.
C18_FailureKeepsState ==
  /\ [][started' # started =>
          UNCHANGED <<videos, generatedVideosCount, playingVideo, promptInput>>]_vars
  /\ [][isSaving /\ (\A i \in Invocations : ~C18_Succeeds(i)) =>
          UNCHANGED <<videos, generatedVideosCount, playingVideo, promptInput,
                      editingVideo>>]_vars
  /\ [][\A i \in Invocations :
          C18_Fails(i) =>
            /\ UNCHANGED <<videos, generatedVideosCount, playingVideo,
                           promptInput, editingVideo, savedCount>>
            /\ isSaving /\ ~isSaving'
            /\ generationError = <<>> /\ generationError' # <<>>]_vars
  /\ [](\A i \in Invocations :
          handler[i] = "new" => promptInput = origin[i].description)
  /\ [][promptInput' # promptInput =>
          \/ ChangePrompt
          \/ /\ promptInput' = ""
             /\ \E i \in Invocations : C18_Succeeds(i) /\ handler[i] = "new"]_vars

\* Reached: a generation from the prompt form has failed for want of
\* videos; the gallery, the counter, the playing video and the prompt text
\* are those of the start, and the error is on display.
C18_Witness ==
  /\ started = 1
  /\ ~isSaving
  /\ generationError = <<"Video generation failed:", "No videos generated">>
  /\ videos = MOCK_VIDEOS
  /\ generatedVideosCount = savedCount
  /\ playingVideo = videos[2]
  /\ promptInput = "a majestic grizzly bear in the rapids"

====
